---- MODULE Spec2Model ----
(***************************************************************************)
(* A model of aiopyfcm: FCMNotification (fcm.py) over BaseAPI (baseapi.py). *)
(* Payload building, chunking, the concurrent dispatch of the payloads and *)
(* the aggregation of the gateway's responses.                             *)
(*                                                                         *)
(* Python values are tagged records [t |-> type, v |-> value], so that the *)
(* code's truthiness tests (if x:) and isinstance tests are computed the   *)
(* way Python computes them.                                               *)
(***************************************************************************)
EXTENDS Integers, Sequences, FiniteSets, TLC

(* ------------------------------------------------------------------ *)
(* Python values                                                       *)
(* ------------------------------------------------------------------ *)
None == [t |-> "none"]

PyBool(b) == [t |-> "bool", v |-> b]

PyInt(n) == [t |-> "int", v |-> n]

PyStr(s) == [t |-> "str", v |-> s]

PyList(q) == [t |-> "list", v |-> q]

PyDict(f) == [t |-> "dict", v |-> f]

EmptyDict == <<>>

\* bool(x): None, False, 0, "", [] and {} are falsy
Truthy(x) ==
  CASE x.t = "none" -> FALSE
    [] x.t = "bool" -> x.v
    [] x.t = "int"  -> x.v # 0
    [] x.t = "str"  -> x.v # ""
    [] x.t = "list" -> Len(x.v) > 0
    [] x.t = "dict" -> DOMAIN x.v # {}

\* isinstance(x, int): bool is a subclass of int
IsInstanceInt(x) == x.t \in {"int", "bool"}

IsInstanceBool(x) == x.t = "bool"

IsInstanceDict(x) == x.t = "dict"

IsInstanceList(x) == x.t = "list"

\* the integer an int or a bool compares as (True is 1, False is 0)
IntOf(x) == IF x.t = "bool" THEN (IF x.v THEN 1 ELSE 0) ELSE x.v

\* d[k] = v on a dict held as a function from keys
Put(d, k, v) == [y \in (DOMAIN d) \cup {k} |-> IF y = k THEN v ELSE d[y]]

\* d.update(e)
Update(d, e) == [y \in (DOMAIN d) \cup (DOMAIN e) |-> IF y \in DOMAIN e THEN e[y] ELSE d[y]]

\* del d[k]
Del(d, k) == [y \in (DOMAIN d) \ {k} |-> d[y]]

\* d.get(k, default)
Get(d, k, default) == IF k \in DOMAIN d THEN d[k] ELSE default

Min(a, b) == IF a < b THEN a ELSE b

\* q[i:j] for 0 <= i <= j: the slice is clamped to the length of q
Slice(q, i, j) == SubSeq(q, i + 1, Min(j, Len(q)))

\* list(range(start, stop, step)) for step > 0
RECURSIVE PyRange(_, _, _)
PyRange(start, stop, step) ==
  IF start >= stop THEN <<>> ELSE <<start>> \o PyRange(start + step, stop, step)

(* ------------------------------------------------------------------ *)
(* BaseAPI constants                                                   *)
(* ------------------------------------------------------------------ *)
FCM_MAX_RECIPIENTS == 1000

FCM_LOW_PRIORITY == "normal"

FCM_HIGH_PRIORITY == "high"

(* ------------------------------------------------------------------ *)
(* BaseAPI.registration_id_chunks                                      *)
(* ------------------------------------------------------------------ *)
\* the first index of every chunk: range(0, len(registration_ids), FCM_MAX_RECIPIENTS)
ChunkStarts(registration_ids) == PyRange(0, Len(registration_ids), FCM_MAX_RECIPIENTS)

\* registration_id_chunks with the slice one short: i : i + FCM_MAX_RECIPIENTS - 1
registration_id_chunks_short(registration_ids) ==
  LET starts == ChunkStarts(registration_ids)
  IN  [k \in 1..Len(starts) |->
         Slice(registration_ids, starts[k], starts[k] + FCM_MAX_RECIPIENTS - 1)]

\* the chunks the generator yields, in order, for a Python list (a sequence)
registration_id_chunks(registration_ids) ==
  LET starts == ChunkStarts(registration_ids)
  IN  [k \in 1..Len(starts) |->
         Slice(registration_ids, starts[k], starts[k] + FCM_MAX_RECIPIENTS)]

(* ------------------------------------------------------------------ *)
(* BaseAPI.json_dumps and BaseAPI.parse_payload                        *)
(* ------------------------------------------------------------------ *)
\* the encoded payload; Decoded gives back the dict a reader of the bytes parses
json_dumps(data) == [json |-> data]

Decoded(bytes) == bytes.json

InvalidDataError(msg) == [error |-> "InvalidDataError", msg |-> PyStr(msg)]

\* the names parse_payload declares; any other keyword lands in **extra_kwargs
ParsePayloadParams ==
  {"registration_ids", "topic_name", "message_body", "message_title", "message_icon",
   "sound", "condition", "collapse_key", "delay_while_idle", "time_to_live",
   "restricted_package_name", "low_priority", "data_message", "click_action", "badge",
   "color", "tag", "body_loc_key", "body_loc_args", "title_loc_key", "title_loc_args",
   "content_available", "remove_notification", "android_channel_id",
   "extra_notification_kwargs"}

\* the defaults of parse_payload's signature
ParsePayloadDefaults ==
  [registration_ids |-> None, topic_name |-> None, message_body |-> None,
   message_title |-> None, message_icon |-> None, sound |-> None, condition |-> None,
   collapse_key |-> None, delay_while_idle |-> PyBool(FALSE), time_to_live |-> None,
   restricted_package_name |-> None, low_priority |-> PyBool(FALSE),
   data_message |-> None, click_action |-> None, badge |-> None, color |-> None,
   tag |-> None, body_loc_key |-> None, body_loc_args |-> None, title_loc_key |-> None,
   title_loc_args |-> None, content_available |-> None,
   remove_notification |-> PyBool(FALSE), android_channel_id |-> None,
   extra_notification_kwargs |-> PyDict(EmptyDict), extra_kwargs |-> EmptyDict]

\* the target fields with every non-empty list sent as registration_ids
PayloadTarget_always_list(a) ==
  LET p1 == IF Truthy(a.registration_ids)
            THEN Put(EmptyDict, "registration_ids", a.registration_ids)
            ELSE EmptyDict
  IN  IF Truthy(a.condition)
      THEN Put(p1, "condition", a.condition)
      ELSE IF Truthy(a.topic_name)
           THEN Put(p1, "to", PyStr("/topics/" \o a.topic_name.v))
           ELSE p1

\* lines 221-234: the target fields
PayloadTarget(a) ==
  LET p0 == EmptyDict
      p1 == IF Truthy(a.registration_ids)
            THEN IF Len(a.registration_ids.v) > 1
                 THEN Put(p0, "registration_ids", a.registration_ids)
                 ELSE Put(p0, "to", a.registration_ids.v[1])
            ELSE p0
  IN  IF Truthy(a.condition)
      THEN Put(p1, "condition", a.condition)
      ELSE IF Truthy(a.topic_name)
           THEN Put(p1, "to", PyStr("/topics/" \o a.topic_name.v))
           ELSE p1

\* if x: d[k] = x
PutIfTruthy(d, k, x) == IF Truthy(x) THEN Put(d, k, x) ELSE d

\* lines 236-251: priority and the delivery policy, time_to_live checked apart
PayloadDelivery(p, a) ==
  LET p1 == Put(p, "priority",
                PyStr(IF Truthy(a.low_priority) THEN FCM_LOW_PRIORITY ELSE FCM_HIGH_PRIORITY))
      p2 == PutIfTruthy(p1, "delay_while_idle", a.delay_while_idle)
      p3 == PutIfTruthy(p2, "collapse_key", a.collapse_key)
      p4 == IF a.time_to_live # None THEN Put(p3, "time_to_live", a.time_to_live) ELSE p3
  IN  PutIfTruthy(p4, "restricted_package_name", a.restricted_package_name)

\* the body or title with the localization pair merged in beside it (no else)
NotificationText_merged(n, key, message, loc_key, loc_args) ==
  LET n0 == PutIfTruthy(n, key, message)
      n1 == PutIfTruthy(n0, key \o "_loc_key", loc_key)
  IN  PutIfTruthy(n1, key \o "_loc_args", loc_args)

\* lines 261-272 (key = "body") and 273-284 (key = "title")
NotificationText(n, key, message, loc_key, loc_args) ==
  IF Truthy(message)
  THEN Put(n, key, message)
  ELSE LET n1 == PutIfTruthy(n, key \o "_loc_key", loc_key)
       IN  PutIfTruthy(n1, key \o "_loc_args", loc_args)

\* lines 253-299: the notification sub-object before the extension fields
PayloadNotification(a) ==
  LET n1 == PutIfTruthy(EmptyDict, "icon", a.message_icon)
      n2 == NotificationText(n1, "body", a.message_body, a.body_loc_key, a.body_loc_args)
      n3 == NotificationText(n2, "title", a.message_title, a.title_loc_key, a.title_loc_args)
      n4 == PutIfTruthy(n3, "android_channel_id", a.android_channel_id)
      n5 == PutIfTruthy(n4, "click_action", a.click_action)
      n6 == IF IsInstanceInt(a.badge) /\ IntOf(a.badge) >= 0
            THEN Put(n5, "badge", a.badge) ELSE n5
      n7 == PutIfTruthy(n6, "color", a.color)
      n8 == PutIfTruthy(n7, "tag", a.tag)
  IN  PutIfTruthy(n8, "sound", a.sound)

\* the first raise parse_payload reaches, in the order of the code, or None
PayloadError(a) ==
  IF a.time_to_live # None /\ ~IsInstanceInt(a.time_to_live)
  THEN InvalidDataError("Provided time_to_live is not an integer")
  ELSE IF Truthy(a.data_message) /\ ~IsInstanceDict(a.data_message)
  THEN InvalidDataError("Provided data_message is in the wrong format")
  ELSE IF ~Truthy(a.message_body) /\ Truthy(a.body_loc_args) /\ ~IsInstanceList(a.body_loc_args)
  THEN InvalidDataError("body_loc_args should be an array")
  ELSE IF ~Truthy(a.message_title) /\ Truthy(a.title_loc_args) /\ ~IsInstanceList(a.title_loc_args)
  THEN InvalidDataError("title_loc_args should be an array")
  ELSE None

\* the dict without the del of lines 312-313
PayloadDict_keep_notification(a) ==
  LET p1 == PayloadDelivery(PayloadTarget(a), a)
      p2 == Put(p1, "notification", PyDict(PayloadNotification(a)))
      p3 == PutIfTruthy(p2, "data", a.data_message)
      p4 == IF Truthy(a.content_available) /\ IsInstanceBool(a.content_available)
            THEN Put(p3, "content_available", a.content_available) ELSE p3
      p5 == IF DOMAIN a.extra_kwargs # {} THEN Update(p4, a.extra_kwargs) ELSE p4
  IN  IF Truthy(a.extra_notification_kwargs)
      THEN Put(p5, "notification",
               PyDict(Update(p5["notification"].v, a.extra_notification_kwargs.v)))
      ELSE p5

\* the dict with the top-level extension fields merged first: the builder's own
\* fields win over them
PayloadDict_extensions_first(a) ==
  LET p1 == PayloadDelivery(PayloadTarget(a), a)
      p2 == Put(p1, "notification", PyDict(PayloadNotification(a)))
      p3 == PutIfTruthy(p2, "data", a.data_message)
      p4 == IF Truthy(a.content_available) /\ IsInstanceBool(a.content_available)
            THEN Put(p3, "content_available", a.content_available) ELSE p3
      p5 == IF DOMAIN a.extra_kwargs # {} THEN Update(a.extra_kwargs, p4) ELSE p4
      p6 == IF Truthy(a.extra_notification_kwargs)
            THEN Put(p5, "notification",
                     PyDict(Update(p5["notification"].v, a.extra_notification_kwargs.v)))
            ELSE p5
  IN  IF Truthy(a.remove_notification) THEN Del(p6, "notification") ELSE p6

\* lines 221-315 when nothing raises: the dict handed to json_dumps
PayloadDict(a) ==
  LET p1 == PayloadDelivery(PayloadTarget(a), a)
      p2 == Put(p1, "notification", PyDict(PayloadNotification(a)))
      p3 == PutIfTruthy(p2, "data", a.data_message)
      p4 == IF Truthy(a.content_available) /\ IsInstanceBool(a.content_available)
            THEN Put(p3, "content_available", a.content_available) ELSE p3
      p5 == IF DOMAIN a.extra_kwargs # {} THEN Update(p4, a.extra_kwargs) ELSE p4
      \* fcm_payload["notification"].update(...): a KeyError-free read only when the
      \* key still holds a dict; extra_kwargs may have replaced it
      p6 == IF Truthy(a.extra_notification_kwargs)
            THEN Put(p5, "notification",
                     PyDict(Update(p5["notification"].v, a.extra_notification_kwargs.v)))
            ELSE p5
  IN  IF Truthy(a.remove_notification) THEN Del(p6, "notification") ELSE p6

\* line 309 reads fcm_payload["notification"].update: extra_kwargs may have put
\* something that is no dict under that key
ExtensionError(a) ==
  IF Truthy(a.extra_notification_kwargs)
     /\ "notification" \in DOMAIN a.extra_kwargs
     /\ ~IsInstanceDict(a.extra_kwargs["notification"])
  THEN [error |-> "AttributeError", msg |-> None]
  ELSE None

\* parse_payload with its parameters bound to a:
\* [ok |-> TRUE, bytes |-> ...] or [ok |-> FALSE, exc |-> ...]
parse_payload(a) ==
  IF PayloadError(a) # None
  THEN [ok |-> FALSE, exc |-> PayloadError(a)]
  ELSE IF ExtensionError(a) # None
  THEN [ok |-> FALSE, exc |-> ExtensionError(a)]
  ELSE [ok |-> TRUE, bytes |-> json_dumps(PayloadDict(a))]

\* Python's binding of a call parse_payload(k1=v1, ..., **extra): a keyword given
\* twice is a TypeError; a keyword that names a parameter sets it; the others are
\* collected in extra_kwargs
BindParsePayload(named, extra) ==
  LET all == Update(named, extra)
  IN  [k \in ParsePayloadParams \cup {"extra_kwargs"} |->
         IF k = "extra_kwargs"
         THEN [x \in (DOMAIN all) \ ParsePayloadParams |-> all[x]]
         ELSE IF k \in DOMAIN all THEN all[k] ELSE ParsePayloadDefaults[k]]

call_parse_payload(named, extra) ==
  IF (DOMAIN named) \cap (DOMAIN extra) # {}
  THEN [ok |-> FALSE, exc |-> [error |-> "TypeError", msg |-> None]]
  ELSE parse_payload(BindParsePayload(named, extra))

(* ------------------------------------------------------------------ *)
(* httpx.Response and BaseAPI.parse_responses                          *)
(* ------------------------------------------------------------------ *)
\* A response is [status_code, headers, body, request]: headers maps lower-case
\* header names (httpx headers are case-insensitive) to the characters of the
\* value, body is [kind |-> "json", value |-> v], [kind |-> "text", text |-> s] or
\* [kind |-> "empty"], and request is the payload the response answers.

DigitValue ==
  [c \in {"0", "1", "2", "3", "4", "5", "6", "7", "8", "9"} |->
     CASE c = "0" -> 0 [] c = "1" -> 1 [] c = "2" -> 2 [] c = "3" -> 3 [] c = "4" -> 4
       [] c = "5" -> 5 [] c = "6" -> 6 [] c = "7" -> 7 [] c = "8" -> 8 [] c = "9" -> 9]

IsDigits(cs) == Len(cs) > 0 /\ \A i \in 1..Len(cs) : cs[i] \in DOMAIN DigitValue

RECURSIVE DigitsValue(_)
DigitsValue(cs) ==
  IF cs = <<>> THEN 0
  ELSE 10 * DigitsValue(SubSeq(cs, 1, Len(cs) - 1)) + DigitValue[cs[Len(cs)]]

\* int(s) of a header value: [ok |-> TRUE, v |-> n], or ValueError
ParseInt(cs) ==
  LET signed == Len(cs) > 0 /\ cs[1] \in {"-", "+"}
      digits == IF signed THEN Tail(cs) ELSE cs
  IN  IF IsDigits(digits)
      THEN [ok |-> TRUE,
            v |-> IF signed /\ cs[1] = "-" THEN 0 - DigitsValue(digits) ELSE DigitsValue(digits)]
      ELSE [ok |-> FALSE]

\* response.text
ResponseText(response) == [t |-> "text", of |-> response.body]

\* whether response.json() parses
JsonParses(response) == response.body.kind = "json"

AuthenticationError ==
  [error |-> "AuthenticationError",
   msg |-> PyStr("There was an error authenticating the sender account")]

FCMNotRegisteredError == [error |-> "FCMNotRegisteredError", msg |-> PyStr("Token not registered")]

FCMServerError(msg) == [error |-> "FCMServerError", msg |-> PyStr(msg)]

\* an exception the code does not raise itself (ValueError, JSONDecodeError, ...)
PyError(name) == [error |-> name, msg |-> None]

\* lines 466-471
EmptyAcc ==
  [multicast_ids |-> <<>>, success |-> 0, failure |-> 0, canonical_ids |-> 0,
   results |-> <<>>, topic_message_id |-> None]

\* the counts assigned instead of added (= for +=)
Accumulate_assigned(acc, parsed_response) ==
  LET message_id == Get(parsed_response, "message_id", None)
      success == IF Truthy(message_id) THEN PyInt(1)
                 ELSE Get(parsed_response, "success", PyInt(0))
  IN  [multicast_ids |-> acc.multicast_ids,
       success |-> IntOf(success),
       failure |-> IntOf(Get(parsed_response, "failure", PyInt(0))),
       canonical_ids |-> IntOf(Get(parsed_response, "canonical_ids", PyInt(0))),
       results |-> acc.results \o Get(parsed_response, "results", PyList(<<>>)).v,
       topic_message_id |-> message_id]

\* the counts added without lines 493-494: a message_id leaves success as sent
Accumulate_no_override(acc, parsed_response) ==
  LET multicast_id == Get(parsed_response, "multicast_id", None)
  IN  [multicast_ids |-> IF Truthy(multicast_id)
                         THEN Append(acc.multicast_ids, multicast_id)
                         ELSE acc.multicast_ids,
       success |-> acc.success + IntOf(Get(parsed_response, "success", PyInt(0))),
       failure |-> acc.failure + IntOf(Get(parsed_response, "failure", PyInt(0))),
       canonical_ids |-> acc.canonical_ids
                           + IntOf(Get(parsed_response, "canonical_ids", PyInt(0))),
       results |-> acc.results \o Get(parsed_response, "results", PyList(<<>>)).v,
       topic_message_id |-> Get(parsed_response, "message_id", None)]

\* lines 485-501: one parsed 200 response added to the counts
Accumulate(acc, parsed_response) ==
  LET multicast_id == Get(parsed_response, "multicast_id", None)
      failure == Get(parsed_response, "failure", PyInt(0))
      canonical_ids == Get(parsed_response, "canonical_ids", PyInt(0))
      response_results == Get(parsed_response, "results", PyList(<<>>))
      message_id == Get(parsed_response, "message_id", None)
      success == IF Truthy(message_id) THEN PyInt(1)
                 ELSE Get(parsed_response, "success", PyInt(0))
  IN  [multicast_ids |-> IF Truthy(multicast_id)
                         THEN Append(acc.multicast_ids, multicast_id)
                         ELSE acc.multicast_ids,
       success |-> acc.success + IntOf(success),
       failure |-> acc.failure + IntOf(failure),
       canonical_ids |-> acc.canonical_ids + IntOf(canonical_ids),
       results |-> acc.results \o response_results.v,
       topic_message_id |-> message_id]

\* the classification without its 404 branch: 404 falls to the last else
ParseResponse_no_404(acc, response) ==
  IF response.status_code = 200
  THEN IF "content-length" \in DOMAIN response.headers
          /\ ParseInt(response.headers["content-length"]).v <= 0
       THEN [ok |-> FALSE,
             exc |-> FCMServerError("FCM server connection error, the response is empty")]
       ELSE IF ~JsonParses(response)
       THEN [ok |-> FALSE, exc |-> PyError("JSONDecodeError")]
       ELSE IF response.body.value.t # "dict"
       THEN [ok |-> FALSE, exc |-> PyError("AttributeError")]
       ELSE [ok |-> TRUE, acc |-> Accumulate(acc, response.body.value.v)]
  ELSE IF response.status_code = 401
  THEN [ok |-> FALSE, exc |-> AuthenticationError]
  ELSE IF response.status_code = 400
  THEN [ok |-> FALSE, exc |-> [error |-> "InvalidDataError", msg |-> ResponseText(response)]]
  ELSE [ok |-> FALSE, exc |-> FCMServerError("FCM server is temporarily unavailable")]

\* lines 474-512: what one response does to the loop: [ok |-> TRUE, acc |-> ...]
\* or the exception that leaves it
ParseResponse(acc, response) ==
  IF response.status_code = 200
  THEN IF "content-length" \in DOMAIN response.headers
          /\ ~ParseInt(response.headers["content-length"]).ok
       THEN [ok |-> FALSE, exc |-> PyError("ValueError")]
       ELSE IF "content-length" \in DOMAIN response.headers
               /\ ParseInt(response.headers["content-length"]).v <= 0
       THEN [ok |-> FALSE,
             exc |-> FCMServerError("FCM server connection error, the response is empty")]
       ELSE IF ~JsonParses(response)
       THEN [ok |-> FALSE, exc |-> PyError("JSONDecodeError")]
       ELSE IF response.body.value.t # "dict"
       THEN [ok |-> FALSE, exc |-> PyError("AttributeError")]
       ELSE [ok |-> TRUE, acc |-> Accumulate(acc, response.body.value.v)]
  ELSE IF response.status_code = 401
  THEN [ok |-> FALSE, exc |-> AuthenticationError]
  ELSE IF response.status_code = 400
  THEN [ok |-> FALSE, exc |-> [error |-> "InvalidDataError", msg |-> ResponseText(response)]]
  ELSE IF response.status_code = 404
  THEN [ok |-> FALSE, exc |-> FCMNotRegisteredError]
  ELSE [ok |-> FALSE, exc |-> FCMServerError("FCM server is temporarily unavailable")]

\* the for loop of lines 473-512 from response i on
RECURSIVE ParseLoop(_, _, _)
ParseLoop(acc, responses, i) ==
  IF i > Len(responses)
  THEN [ok |-> TRUE, acc |-> acc]
  ELSE LET step == ParseResponse(acc, responses[i])
       IN  IF step.ok THEN ParseLoop(step.acc, responses, i + 1) ELSE step

\* parse_responses going through the responses from the last to the first
parse_responses_reversed(responses) ==
  LET reversed == [i \in 1..Len(responses) |-> responses[Len(responses) + 1 - i]]
      loop == ParseLoop(EmptyAcc, reversed, 1)
  IN  IF loop.ok THEN [ok |-> TRUE, result |-> loop.acc] ELSE loop

\* parse_responses(responses): [ok |-> TRUE, result |-> FCMResult] or the exception
parse_responses(responses) ==
  LET loop == ParseLoop(EmptyAcc, responses, 1)
  IN  IF loop.ok THEN [ok |-> TRUE, result |-> loop.acc] ELSE loop

(* ------------------------------------------------------------------ *)
(* FCMNotification: what each operation does before it awaits          *)
(* ------------------------------------------------------------------ *)
\* the keywords notify, notify_topic_subscribers and
\* topic_subscribers_data_message all hand on to parse_payload unchanged
DataMessageKeys ==
  {"condition", "collapse_key", "delay_while_idle", "time_to_live",
   "restricted_package_name", "low_priority", "data_message", "content_available",
   "extra_notification_kwargs"}

DisplayKeys ==
  {"message_body", "message_title", "message_icon", "sound", "click_action", "badge",
   "color", "tag", "body_loc_key", "body_loc_args", "title_loc_key", "title_loc_args",
   "android_channel_id"}

\* the defaults of the three signatures (a parameter an operation lacks is unused)
OperationDefaults ==
  [registration_id |-> None, registration_ids |-> None, topic_name |-> None,
   message_body |-> None, message_title |-> None, message_icon |-> None, sound |-> None,
   condition |-> None, collapse_key |-> None, delay_while_idle |-> PyBool(FALSE),
   time_to_live |-> None, restricted_package_name |-> None, low_priority |-> PyBool(FALSE),
   dry_run |-> PyBool(FALSE), data_message |-> None, click_action |-> None, badge |-> None,
   color |-> None, tag |-> None, body_loc_key |-> None, body_loc_args |-> None,
   title_loc_key |-> None, title_loc_args |-> None, content_available |-> None,
   android_channel_id |-> None, timeout |-> PyInt(120),
   extra_notification_kwargs |-> None, extra_kwargs |-> None]

\* the single id put in front of the list instead of replacing it
NotifyRegistrationIds_prepended(a) ==
  IF Truthy(a.registration_id)
  THEN <<a.registration_id>>
         \o (IF IsInstanceList(a.registration_ids) THEN a.registration_ids.v ELSE <<>>)
  ELSE a.registration_ids.v

\* fcm.py 41-42: a truthy registration_id replaces the list
NotifyRegistrationIds(a) ==
  IF Truthy(a.registration_id) THEN <<a.registration_id>> ELSE a.registration_ids.v

\* fcm.py 103-128: the call of parse_payload for one chunk
NotifyParsePayload(a, registration_id_chunk) ==
  call_parse_payload(
    [k \in DataMessageKeys \cup DisplayKeys \cup {"registration_ids"} |->
       IF k = "registration_ids" THEN PyList(registration_id_chunk) ELSE a[k]],
    IF Truthy(a.extra_kwargs) THEN a.extra_kwargs.v ELSE EmptyDict)

\* the index of the first element of built that raised, or 0
FirstRaise(built) ==
  IF \E k \in 1..Len(built) : ~built[k].ok
  THEN CHOOSE k \in 1..Len(built) : ~built[k].ok /\ \A j \in 1..(k - 1) : built[j].ok
  ELSE 0

\* notify without the check of lines 37-40
NotifyPrepare_no_guard(a) ==
  LET ids == IF Truthy(a.registration_id) THEN <<a.registration_id>>
             ELSE IF IsInstanceList(a.registration_ids) THEN a.registration_ids.v
             ELSE <<>>
      chunks == registration_id_chunks(ids)
      built == [k \in 1..Len(chunks) |-> NotifyParsePayload(a, chunks[k])]
      bad == FirstRaise(built)
  IN  IF bad # 0
      THEN [ok |-> FALSE, exc |-> built[bad].exc,
            payloads |-> [k \in 1..(bad - 1) |-> built[k].bytes]]
      ELSE [ok |-> TRUE, payloads |-> [k \in 1..Len(built) |-> built[k].bytes]]

\* fcm.py 37-129: notify up to its call of send_request:
\* [ok |-> TRUE, payloads |-> ...] or [ok |-> FALSE, exc |-> ..., payloads |-> built so far]
NotifyPrepare(a) ==
  IF ~(Truthy(a.registration_id) \/ Truthy(a.registration_ids))
  THEN [ok |-> FALSE,
        exc |-> InvalidDataError("Either registration_id or registration_ids must be provided"),
        payloads |-> <<>>]
  ELSE LET chunks == registration_id_chunks(NotifyRegistrationIds(a))
           built == [k \in 1..Len(chunks) |-> NotifyParsePayload(a, chunks[k])]
           bad == FirstRaise(built)
       IN  IF bad # 0
           THEN [ok |-> FALSE, exc |-> built[bad].exc,
                 payloads |-> [k \in 1..(bad - 1) |-> built[k].bytes]]
           ELSE [ok |-> TRUE, payloads |-> [k \in 1..Len(built) |-> built[k].bytes]]

\* one payload or the exception, as the two topic operations use it
SinglePrepare(built) ==
  IF built.ok THEN [ok |-> TRUE, payloads |-> <<built.bytes>>]
  ELSE [ok |-> FALSE, exc |-> built.exc, payloads |-> <<>>]

\* notify_topic_subscribers without the check of lines 217-218
NotifyTopicPrepare_no_guard(a) ==
  IF ~IsInstanceDict(a.extra_kwargs)
  THEN [ok |-> FALSE, exc |-> [error |-> "TypeError", msg |-> None], payloads |-> <<>>]
  ELSE SinglePrepare(call_parse_payload(
         [k \in DataMessageKeys \cup DisplayKeys \cup {"topic_name", "dry_run"} |-> a[k]],
         a.extra_kwargs.v))

\* fcm.py 217-245: notify_topic_subscribers up to its call of send_request;
\* **extra_kwargs with extra_kwargs None is a TypeError
NotifyTopicPrepare(a) ==
  IF ~Truthy(a.topic_name)
  THEN [ok |-> FALSE, exc |-> InvalidDataError("Topic name is required"), payloads |-> <<>>]
  ELSE IF ~IsInstanceDict(a.extra_kwargs)
  THEN [ok |-> FALSE, exc |-> [error |-> "TypeError", msg |-> None], payloads |-> <<>>]
  ELSE SinglePrepare(call_parse_payload(
         [k \in DataMessageKeys \cup DisplayKeys \cup {"topic_name", "dry_run"} |-> a[k]],
         a.extra_kwargs.v))

\* fcm.py 300-316: topic_subscribers_data_message up to its call of send_request
TopicDataPrepare(a) ==
  SinglePrepare(call_parse_payload(
    [k \in DataMessageKeys \cup {"topic_name", "dry_run", "remove_notification"} |->
       IF k = "remove_notification" THEN PyBool(TRUE) ELSE a[k]],
    IF a.extra_kwargs = None THEN EmptyDict ELSE a.extra_kwargs.v))

(* ------------------------------------------------------------------ *)
(* State                                                               *)
(* ------------------------------------------------------------------ *)
VARIABLES
  op,         \* the operation called: "none" before the call
  args,       \* the arguments of the call
  pc,         \* the caller's coroutine: "idle", "sending", "returned", "raised"
  payloads,   \* the payloads built by the operation (handed to send_request)
  tasks,      \* one do_request task per payload, created by asyncio.gather
  gather,     \* the future of asyncio.gather: waiting, result or exception
  order,      \* the tasks that have finished, in the order they finished
  responses,  \* what send_request returned to the operation
  outcome     \* what the operation returned or raised

vars == <<op, args, pc, payloads, tasks, gather, order, responses, outcome>>

Pending == [t |-> "pending"]

NoGather == [state |-> "none"]

Init ==
  /\ op = "none"
  /\ args = None
  /\ pc = "idle"
  /\ payloads = <<>>
  /\ tasks = <<>>
  /\ gather = NoGather
  /\ order = <<>>
  /\ responses = <<>>
  /\ outcome = Pending

(* ------------------------------------------------------------------ *)
(* BaseAPI.send_request: asyncio.gather over do_request                *)
(* ------------------------------------------------------------------ *)
\* a task that has not run yet; posts counts the POSTs it has issued
NewTask == [state |-> "pending", posts |-> 0, response |-> None, exc |-> None]

\* the results collected in the order the tasks finished
GatherResult_as_completed(ts, finished) == [i \in 1..Len(ts) |-> ts[finished[i]].response]

\* the result asyncio.gather gives: the tasks' results in the order of the
\* awaitables, whatever the order in which they finished
GatherResult(ts, finished) == [i \in 1..Len(ts) |-> ts[i].response]

\* baseapi.py 336-338: one task per payload, and the future awaited on them
\* (gather of no awaitable is done at once, with an empty list)
StartSend(ps) ==
  /\ tasks' = [i \in 1..Len(ps) |-> NewTask]
  /\ gather' = IF Len(ps) = 0 THEN [state |-> "result", value |-> <<>>]
               ELSE [state |-> "waiting"]

\* an operation runs from its call to its first suspension: it raises, or it has
\* built its payloads and awaits send_request
Call(name, a, prepared) ==
  /\ pc = "idle"
  /\ op' = name
  /\ args' = a
  /\ payloads' = prepared.payloads
  /\ order' = <<>>
  /\ responses' = <<>>
  /\ IF prepared.ok
     THEN /\ pc' = "sending"
          /\ outcome' = Pending
          /\ StartSend(prepared.payloads)
     ELSE /\ pc' = "raised"
          /\ outcome' = [ok |-> FALSE, exc |-> prepared.exc]
          /\ tasks' = <<>>
          /\ gather' = NoGather

\* a task's end as gather sees it: the first exception is the future's exception at
\* once (the other tasks are left running); the last result completes the list
TaskEnds(i, t) ==
  LET ts == [tasks EXCEPT ![i] = t]
      finished == Append(order, i)
  IN  /\ tasks' = ts
      /\ order' = finished
      /\ gather' =
           IF gather.state # "waiting" THEN gather
           ELSE IF t.state = "raised" THEN [state |-> "exception", exc |-> t.exc]
           ELSE IF \A j \in 1..Len(ts) : ts[j].state = "done"
                THEN [state |-> "result", value |-> GatherResult(ts, finished)]
                ELSE gather

\* baseapi.py 320-323: the task's POST goes out (a first attempt, or the recursive
\* call after the sleep of line 329)
Post(i) ==
  /\ tasks[i].state \in {"pending", "sleeping"}
  /\ tasks' = [tasks EXCEPT ![i].state = "posted", ![i].posts = @ + 1]
  /\ UNCHANGED <<op, args, pc, payloads, gather, order, responses, outcome>>

\* baseapi.py 324-327: whether the response asks for a retry: "retry", "return",
\* or "raise" when int() of the header raises ValueError
RetryDecision(response) ==
  IF "retry-after" \in DOMAIN response.headers
  THEN IF ~ParseInt(response.headers["retry-after"]).ok THEN "raise"
       ELSE IF ParseInt(response.headers["retry-after"]).v > 0 THEN "retry"
       ELSE "return"
  ELSE "return"

\* do_request handing back whatever response it got: no sleep, no second POST
Respond_no_retry(i, r) ==
  /\ tasks[i].state = "posted"
  /\ LET response == [r EXCEPT !.request = i]
     IN  IF RetryDecision(response) = "raise"
         THEN TaskEnds(i, [tasks[i] EXCEPT !.state = "raised",
                                           !.exc = [error |-> "ValueError", msg |-> None]])
         ELSE TaskEnds(i, [tasks[i] EXCEPT !.state = "done", !.response = response])
  /\ UNCHANGED <<op, args, pc, payloads, responses, outcome>>

\* baseapi.py 324-331: the gateway's response r reaches task i
Respond(i, r) ==
  /\ tasks[i].state = "posted"
  /\ LET response == [r EXCEPT !.request = i]
         decision == RetryDecision(response)
     IN  IF decision = "retry"
         THEN /\ tasks' = [tasks EXCEPT ![i].state = "sleeping"]
              /\ UNCHANGED <<gather, order>>
         ELSE IF decision = "raise"
         THEN TaskEnds(i, [tasks[i] EXCEPT !.state = "raised",
                                           !.exc = [error |-> "ValueError", msg |-> None]])
         ELSE TaskEnds(i, [tasks[i] EXCEPT !.state = "done", !.response = response])
  /\ UNCHANGED <<op, args, pc, payloads, responses, outcome>>

\* baseapi.py 321: client.post raises (a timeout, a connection error)
PostRaises(i) ==
  /\ tasks[i].state = "posted"
  /\ TaskEnds(i, [tasks[i] EXCEPT !.state = "raised",
                                  !.exc = [error |-> "httpx.TransportError", msg |-> None]])
  /\ UNCHANGED <<op, args, pc, payloads, responses, outcome>>

\* the operation resuming with the exception swallowed: the responses of the
\* tasks that are done are parsed (a partial result)
Resume_partial ==
  /\ pc = "sending"
  /\ gather.state \in {"result", "exception"}
  /\ LET done == SelectSeq(tasks, LAMBDA t : t.state = "done")
         rs == [i \in 1..Len(done) |-> done[i].response]
     IN  /\ responses' = rs
         /\ outcome' = parse_responses(rs)
         /\ pc' = IF parse_responses(rs).ok THEN "returned" ELSE "raised"
  /\ UNCHANGED <<op, args, payloads, tasks, gather, order>>

\* baseapi.py 339 and fcm.py 131-132 (246-247, 317-318): the operation resumes when
\* the future is done: the exception propagates, or the responses are parsed
Resume ==
  /\ pc = "sending"
  /\ gather.state \in {"result", "exception"}
  /\ IF gather.state = "exception"
     THEN /\ pc' = "raised"
          /\ outcome' = [ok |-> FALSE, exc |-> gather.exc]
          /\ responses' = responses
     ELSE /\ responses' = gather.value
          /\ outcome' = parse_responses(gather.value)
          /\ pc' = IF parse_responses(gather.value).ok THEN "returned" ELSE "raised"
  /\ UNCHANGED <<op, args, payloads, tasks, gather, order>>

(* ------------------------------------------------------------------ *)
(* Inputs: the calls made and the responses the gateway gives          *)
(* ------------------------------------------------------------------ *)
\* the most POSTs the gateway lets one task come to by asking for retries
MaxAttempts == 3

\* n distinct registration ids: r1, r2, ...
IdList(n) == [i \in 1..n |-> PyStr("r" \o ToString(i))]

\* a call's arguments: the defaults with some of them given
With(given) == Update(OperationDefaults, given)

TestData == PyDict([test |-> PyStr("Test")])

\* what notify is given besides its recipients
NotifyOtherArgs ==
  {EmptyDict,
   [message_body |-> PyStr("hi"), message_title |-> PyStr("yo")],
   [data_message |-> TestData],
   [condition |-> PyStr("'a' in topics")],
   [time_to_live |-> PyStr("1h")]}

\* recipient lists that fit one request, and a list one id over the cap: two
\* chunks, the last holding a single id
ShortLists == {None, PyList(<<>>), PyList(IdList(1)), PyList(IdList(2))}

LongLists == {PyList(IdList(FCM_MAX_RECIPIENTS + 1))}

NotifyInputs ==
  {With(Update([registration_id |-> id, registration_ids |-> ids], other)) :
     id \in {None, PyStr(""), PyStr("r0")}, ids \in ShortLists, other \in NotifyOtherArgs}
  \cup
  {With([registration_id |-> id, registration_ids |-> ids]) :
     id \in {None, PyStr("")}, ids \in LongLists}

NotifyTopicInputs ==
  {With(Update([topic_name |-> topic, extra_kwargs |-> PyDict(EmptyDict)], other)) :
     topic \in {None, PyStr(""), PyStr("news")},
     other \in {EmptyDict,
                [message_body |-> PyStr("hi"), dry_run |-> PyBool(TRUE)],
                [condition |-> PyStr("'a' in topics")],
                [time_to_live |-> PyStr("1h")]}}

TopicDataInputs ==
  {With(Update([topic_name |-> topic, data_message |-> TestData], other)) :
     topic \in {None, PyStr("news")},
     other \in {EmptyDict, [condition |-> PyStr("'a' in topics")],
                [extra_kwargs |-> PyDict(EmptyDict)]}}

\* the decimal digits of the header values used: 0, 1 and 17
Chars(n) == IF n = 0 THEN <<"0">> ELSE IF n = 1 THEN <<"1">> ELSE <<"1", "7">>

ContentLength(n) == "content-length" :> Chars(n)

RetryAfter(cs) == "retry-after" :> cs

JsonBody(d) == [kind |-> "json", value |-> PyDict(d)]

TextBody(text) == [kind |-> "text", text |-> text]

EmptyBody == [kind |-> "empty"]

\* a response not yet tied to a request
Response(status_code, headers, body) ==
  [status_code |-> status_code, headers |-> headers, body |-> body, request |-> 0]

\* the responses the gateway gives in the dispatch model
GatewayResponses ==
  {Response(200, ContentLength(17) @@ RetryAfter(Chars(0)),
            JsonBody([success |-> PyInt(1), failure |-> PyInt(1),
                      results |-> PyList(<<PyDict([error |-> PyStr("NotRegistered")])>>)])),
   Response(200, EmptyDict, JsonBody([message_id |-> PyInt(7)])),
   Response(400, ContentLength(17), TextBody("bad request")),
   Response(401, ContentLength(0), EmptyBody),
   Response(404, ContentLength(0), EmptyBody),
   Response(500, EmptyDict, TextBody("unavailable")),
   Response(503, RetryAfter(Chars(1)), EmptyBody),
   Response(200, ContentLength(17) @@ RetryAfter(Chars(17)),
            JsonBody([success |-> PyInt(1)])),
   Response(503, RetryAfter(<<"W", "e", "d">>), EmptyBody),
   Response(200, EmptyDict, EmptyBody)}

(* ------------------------------------------------------------------ *)
(* The dispatch model: one operation, from its call to its end         *)
(* ------------------------------------------------------------------ *)
CallNotify == \E a \in NotifyInputs : Call("notify", a, NotifyPrepare(a))

CallNotifyTopic ==
  \E a \in NotifyTopicInputs : Call("notify_topic_subscribers", a, NotifyTopicPrepare(a))

CallTopicData ==
  \E a \in TopicDataInputs : Call("topic_subscribers_data_message", a, TopicDataPrepare(a))

Send == \E i \in 1..Len(tasks) : Post(i)

\* the gateway asks one task to retry only MaxAttempts - 1 times
Gateway ==
  \E i \in 1..Len(tasks) : \E r \in GatewayResponses :
    /\ RetryDecision(r) = "retry" => tasks[i].posts < MaxAttempts
    /\ Respond(i, r)

Failure == \E i \in 1..Len(tasks) : PostRaises(i)

Next ==
  \/ CallNotify
  \/ CallNotifyTopic
  \/ CallTopicData
  \/ Send
  \/ Gateway
  \/ Failure
  \/ Resume

Spec == Init /\ [][Next]_vars

\* the indices of the tasks one operation creates: at most two payloads here
TaskIds == 1..Len(ChunkStarts(IdList(FCM_MAX_RECIPIENTS + 1)))

\* the event loop runs every task that can run: a POST that can go out goes out, a
\* sleep ends, and the gateway (or the transport, by failing) answers every POST
SpecLive ==
  /\ Spec
  /\ \A i \in TaskIds :
       /\ WF_vars(i \in 1..Len(tasks) /\ Post(i))
       /\ WF_vars(/\ i \in 1..Len(tasks)
                  /\ \/ PostRaises(i)
                     \/ \E r \in GatewayResponses :
                          /\ RetryDecision(r) = "retry" => tasks[i].posts < MaxAttempts
                          /\ Respond(i, r))
(* ------------------------------------------------------------------ *)
(* The chunking model: notify over recipient lists of every length     *)
(* ------------------------------------------------------------------ *)
\* the longest recipient list: three chunks, the last holding a single id
MaxRecipients == 2001

\* n registration ids with repetitions: r0, r1, r2, r0, ...
RepeatedIdList(n) == [i \in 1..n |-> PyStr("r" \o ToString(i % 3))]

\* the longest lists, built once; the lists of every length are their prefixes
LongestIds == IdList(MaxRecipients)

LongestRepeatedIds == RepeatedIdList(MaxRecipients)

FirstIds(n) == SubSeq(LongestIds, 1, n)

FirstRepeatedIds(n) == SubSeq(LongestRepeatedIds, 1, n)

\* a direct call of a function of BaseAPI: it returns or raises at once
CallPure(name, a, returned) ==
  /\ pc = "idle"
  /\ op' = name
  /\ args' = a
  /\ outcome' = returned
  /\ pc' = IF returned.ok THEN "returned" ELSE "raised"
  /\ UNCHANGED <<payloads, tasks, gather, order, responses>>

CallChunks ==
  /\ pc = "idle"
  /\ \E n \in 0..MaxRecipients : \E ids \in {FirstIds(n), FirstRepeatedIds(n)} :
    CallPure("registration_id_chunks", PyList(ids),
             [ok |-> TRUE, result |-> registration_id_chunks(ids)])

CallNotifyMany ==
  /\ pc = "idle"
  /\ \E n \in 0..MaxRecipients :
    \E a \in {With([registration_ids |-> PyList(FirstIds(n))]),
              With([registration_ids |-> PyList(FirstRepeatedIds(n)),
                    message_body |-> PyStr("hi"), message_title |-> PyStr("yo")])} :
      Call("notify", a, NotifyPrepare(a))

NextChunks == CallChunks \/ CallNotifyMany

SpecChunks == Init /\ [][NextChunks]_vars

(* ------------------------------------------------------------------ *)
(* The payload model: parse_payload over its parameters                *)
(* ------------------------------------------------------------------ *)
Topics == PyStr("'a' in topics || 'b' in topics")

\* the parameters are given in groups; every combination within a group
TargetGiven ==
  {[registration_ids |-> ids, topic_name |-> topic, condition |-> cond] :
     ids \in ShortLists, topic \in {None, PyStr(""), PyStr("news")}, cond \in {None, Topics}}

TextGiven(key) ==
  {(("message_" \o key) :> message) @@ ((key \o "_loc_key") :> loc_key)
     @@ ((key \o "_loc_args") :> loc_args) :
     message \in {None, PyStr(""), PyStr("hi")},
     loc_key \in {None, PyStr("LOC_KEY")},
     loc_args \in {None, PyList(<<>>), PyList(<<PyStr("x")>>), PyStr("x")}}

DeliveryGiven ==
  {[time_to_live |-> ttl] : ttl \in {PyInt(0), PyInt(100), PyBool(TRUE), PyStr("1h")}}
  \cup {[low_priority |-> PyBool(TRUE)], [delay_while_idle |-> PyBool(TRUE)],
        [collapse_key |-> PyStr("ck")], [restricted_package_name |-> PyStr("pkg")]}

DataGiven ==
  {[data_message |-> d] :
     d \in {TestData, PyDict(EmptyDict), PyStr("test"), PyStr(""), PyList(<<PyStr("x")>>)}}
  \cup {[content_available |-> c] :
          c \in {PyBool(TRUE), PyBool(FALSE), PyStr("yes"), PyInt(1)}}

DisplayGiven ==
  {[badge |-> b] : b \in {PyInt(0 - 1), PyInt(0), PyInt(3), PyStr("Test"), PyBool(TRUE)}}
  \cup {[message_icon |-> PyStr("icon")], [sound |-> PyStr("Default")],
        [click_action |-> PyStr("OPEN")], [color |-> PyStr("#fff")], [tag |-> PyStr("tag")],
        [android_channel_id |-> PyStr("ch")]}

ExtensionGiven ==
  {[remove_notification |-> rm, extra_notification_kwargs |-> enk, extra_kwargs |-> ek] :
     rm \in {PyBool(FALSE), PyBool(TRUE)},
     enk \in {None, PyDict(EmptyDict), PyDict([body |-> PyStr("override")]),
              PyDict([image |-> PyStr("url")])},
     ek \in {EmptyDict, [to |-> PyStr("/topics/other")], [dry_run |-> PyBool(TRUE)],
             [priority |-> PyStr("normal"), data |-> PyStr("raw")],
             [notification |-> PyStr("text")]}}

GivenGroups ==
  {TargetGiven, TextGiven("body"), TextGiven("title"), DeliveryGiven, DataGiven,
   DisplayGiven, ExtensionGiven}

\* parse_payload called with the parameters of at most two groups given
CallParsePayload ==
  /\ pc = "idle"
  /\ \E g1 \in GivenGroups : \E g2 \in GivenGroups : \E x \in g1 : \E y \in g2 :
    LET a == Update(Update(ParsePayloadDefaults, x), y)
    IN  CallPure("parse_payload", a, parse_payload(a))

\* parse_payload called directly, or by the data-only operation up to its await
NextPayload == CallParsePayload \/ CallTopicData

SpecPayload == Init /\ [][NextPayload]_vars

(* ------------------------------------------------------------------ *)
(* The aggregation model: parse_responses over lists of responses      *)
(* ------------------------------------------------------------------ *)
\* the longest list of responses
MaxResponses == 2

SuccessBodies ==
  {JsonBody([success |-> PyInt(1)]),
   JsonBody([success |-> PyInt(1), failure |-> PyInt(1), multicast_id |-> PyInt(108),
             results |-> PyList(<<PyDict([message_id |-> PyStr("0:1")]),
                                  PyDict([error |-> PyStr("NotRegistered")])>>)]),
   JsonBody([success |-> PyInt(2), canonical_ids |-> PyInt(1), multicast_id |-> PyInt(216),
             results |-> PyList(<<PyDict([registration_id |-> PyStr("new")]),
                                  PyDict([message_id |-> PyStr("0:2")])>>)]),
   JsonBody([message_id |-> PyInt(7)]),
   JsonBody([message_id |-> PyInt(9), success |-> PyInt(0), failure |-> PyInt(1)]),
   JsonBody([message_id |-> PyInt(0), success |-> PyInt(2)]),
   JsonBody([message_id |-> PyStr("m11"), success |-> PyInt(3), canonical_ids |-> PyInt(1),
             results |-> PyList(<<PyDict([message_id |-> PyStr("0:3")])>>)]),
   JsonBody([hi |-> PyStr("ok")])}

\* what a server can send: a content-length, when sent, is the length of the body
ResponsePool ==
  {Response(200, h, b) : h \in {EmptyDict, ContentLength(17)}, b \in SuccessBodies}
  \cup {Response(200, h, EmptyBody) : h \in {EmptyDict, ContentLength(0)}}
  \cup {Response(200, ContentLength(17), TextBody("<html>")),
        Response(200, ContentLength(17), [kind |-> "json", value |-> PyList(<<>>)])}
  \cup {Response(status_code, h, b) :
          status_code \in {400, 401, 404, 500, 503},
          h \in {ContentLength(17), RetryAfter(Chars(0))},
          b \in {TextBody("bad request"), JsonBody([error |-> PyStr("InvalidRegistration")])}}
  \cup {Response(status_code, ContentLength(0), EmptyBody) : status_code \in {400, 401, 404, 204}}

\* the lists of n responses
ResponseLists(n) == [1..n -> ResponsePool]

CallParseResponses ==
  /\ pc = "idle"
  /\ \E n \in 0..MaxResponses : \E rs \in ResponseLists(n) :
    /\ responses' = rs
    /\ op' = "parse_responses"
    /\ args' = None
    /\ outcome' = parse_responses(rs)
    /\ pc' = IF parse_responses(rs).ok THEN "returned" ELSE "raised"
    /\ UNCHANGED <<payloads, tasks, gather, order>>

SpecResponses == Init /\ [][CallParseResponses]_vars
(* ------------------------------------------------------------------ *)
(* Properties                                                          *)
(* ------------------------------------------------------------------ *)
CeilDiv(n, d) == (n + d - 1) \div d

RECURSIVE Flatten(_)
Flatten(chunks) == IF chunks = <<>> THEN <<>> ELSE Head(chunks) \o Flatten(Tail(chunks))

\* the registration ids an encoded payload targets
PayloadRecipients(bytes) ==
  LET p == Decoded(bytes)
  IN  IF "registration_ids" \in DOMAIN p THEN p["registration_ids"].v
      ELSE IF "to" \in DOMAIN p THEN <<p["to"]>>
      ELSE <<>>

ChunkingHolds(ids, chunks) ==
  /\ Len(chunks) = IF Len(ids) = 0 THEN 0
                   ELSE IF Len(ids) <= FCM_MAX_RECIPIENTS THEN 1
                   ELSE CeilDiv(Len(ids), FCM_MAX_RECIPIENTS)
  /\ \A k \in 1..Len(chunks) : Len(chunks[k]) >= 1 /\ Len(chunks[k]) <= FCM_MAX_RECIPIENTS
  /\ Flatten(chunks) = ids

\* C1: for a non-empty recipient list of length n, notify builds one payload when
\* n <= FCM_MAX_RECIPIENTS and ceil(n / FCM_MAX_RECIPIENTS) payloads otherwise, every
\* chunk holds between 1 and FCM_MAX_RECIPIENTS recipients, and the chunks in order
\* concatenate to the original list; registration_id_chunks of an empty list yields
\* no chunk.
C1_Chunking ==
  /\ (op = "notify" /\ (Truthy(args.registration_id) \/ Truthy(args.registration_ids)))
       => /\ pc = "sending"
          /\ ChunkingHolds(NotifyRegistrationIds(args),
                           [k \in 1..Len(payloads) |-> PayloadRecipients(payloads[k])])
  /\ op = "registration_id_chunks" => ChunkingHolds(args.v, outcome.result)

C1_Witness ==
  /\ op = "notify"
  /\ pc = "sending"
  /\ Len(args.registration_ids.v) > 2 * FCM_MAX_RECIPIENTS
  /\ Len(payloads) = 3
  /\ Len(PayloadRecipients(payloads[3])) = 1

NoRequestIssued == \A i \in 1..Len(tasks) : tasks[i].posts = 0

\* C2: notify with neither registration_id nor registration_ids (absent or empty)
\* raises InvalidDataError, and no HTTP request has been issued by the call, whatever
\* the other arguments are.
C2_NoTargetRaises ==
  (op = "notify" /\ ~Truthy(args.registration_id) /\ ~Truthy(args.registration_ids))
    => /\ pc = "raised"
       /\ outcome.ok = FALSE
       /\ outcome.exc.error = "InvalidDataError"
       /\ outcome.exc.msg = PyStr("Either registration_id or registration_ids must be provided")
       /\ payloads = <<>>
       /\ tasks = <<>>
       /\ NoRequestIssued

C2_Witness ==
  /\ op = "notify"
  /\ args.registration_id = PyStr("")
  /\ args.registration_ids = PyList(<<>>)
  /\ args.time_to_live = PyStr("1h")
  /\ pc = "raised"

\* a 200 response parse_responses adds to the counts
Healthy(r) ==
  /\ r.status_code = 200
  /\ r.body.kind = "json"
  /\ r.body.value.t = "dict"
  /\ "content-length" \in DOMAIN r.headers => r.headers["content-length"] # <<"0">>

ExpectedError(status_code) ==
  CASE status_code = 401 -> "AuthenticationError"
    [] status_code = 400 -> "InvalidDataError"
    [] status_code = 404 -> "FCMNotRegisteredError"
    [] OTHER -> "FCMServerError"

\* C3: parse_responses classifies a non-200 response by its status code only: 401
\* raises AuthenticationError, 400 InvalidDataError carrying the body text, 404
\* FCMNotRegisteredError, any other FCMServerError; no non-200 response is counted
\* into a returned FCMResult.
C3_Classification ==
  op = "parse_responses" =>
    /\ outcome.ok => \A i \in 1..Len(responses) : responses[i].status_code = 200
    /\ \A i \in 1..Len(responses) :
         (responses[i].status_code # 200 /\ \A j \in 1..(i - 1) : Healthy(responses[j]))
           => /\ outcome.ok = FALSE
              /\ outcome.exc.error = ExpectedError(responses[i].status_code)
              /\ responses[i].status_code = 400
                   => outcome.exc.msg = [t |-> "text", of |-> responses[i].body]

C3_Witness ==
  /\ op = "parse_responses"
  /\ Len(responses) = 2
  /\ Healthy(responses[1])
  /\ responses[2].status_code = 404
  /\ "retry-after" \in DOMAIN responses[2].headers
  /\ outcome.ok = FALSE
  /\ outcome.exc.error = "FCMNotRegisteredError"

BodyField(r, k) == IntOf(Get(r.body.value.v, k, PyInt(0)))

RECURSIVE SumField(_, _)
SumField(rs, k) == IF rs = <<>> THEN 0 ELSE BodyField(Head(rs), k) + SumField(Tail(rs), k)

RECURSIVE AllResults(_)
AllResults(rs) ==
  IF rs = <<>> THEN <<>>
  ELSE Get(Head(rs).body.value.v, "results", PyList(<<>>)).v \o AllResults(Tail(rs))

\* one for a response that carries a truthy message_id, else its success field
SuccessOf(r) ==
  IF Truthy(Get(r.body.value.v, "message_id", None)) THEN 1 ELSE BodyField(r, "success")

RECURSIVE SumSuccess(_)
SumSuccess(rs) == IF rs = <<>> THEN 0 ELSE SuccessOf(Head(rs)) + SumSuccess(Tail(rs))

AllHealthy == \A i \in 1..Len(responses) : Healthy(responses[i])

\* C4 as stated: when every response is a 200 with a body, success, failure and
\* canonical_ids of the result are the sums of those fields over the responses and
\* results is the concatenation of their results lists.
C4_Original ==
  (op = "parse_responses" /\ AllHealthy)
    => /\ outcome.ok
       /\ outcome.result.success = SumField(responses, "success")
       /\ outcome.result.failure = SumField(responses, "failure")
       /\ outcome.result.canonical_ids = SumField(responses, "canonical_ids")
       /\ outcome.result.results = AllResults(responses)

\* C4: when every response is a 200 with a body, failure and canonical_ids of the
\* result are the sums of those fields over the responses, results is the
\* concatenation of their results lists, and success is the sum over the responses of
\* 1 for a response that carries a message_id and of its success field otherwise.
C4_Aggregation ==
  (op = "parse_responses" /\ AllHealthy)
    => /\ outcome.ok
       /\ outcome.result.success = SumSuccess(responses)
       /\ outcome.result.failure = SumField(responses, "failure")
       /\ outcome.result.canonical_ids = SumField(responses, "canonical_ids")
       /\ outcome.result.results = AllResults(responses)

C4_Witness ==
  /\ op = "parse_responses"
  /\ Len(responses) = 2
  /\ AllHealthy
  /\ responses[1].body = JsonBody([success |-> PyInt(1)])
  /\ BodyField(responses[2], "success") = 1
  /\ BodyField(responses[2], "failure") = 1
  /\ outcome.ok
  /\ outcome.result.success = 2
  /\ outcome.result.failure = 1
  /\ Len(outcome.result.results) = 2

\* C5: send_request launches one send per payload, all at once, and returns only
\* when every one has completed; whatever the order of completion, the i-th response
\* returned answers the i-th payload, and these are the responses parse_responses
\* is given.
C5_GatherOrder ==
  /\ pc = "sending" => Len(tasks) = Len(payloads)
  /\ gather.state = "result"
       => /\ \A i \in 1..Len(tasks) : tasks[i].state = "done"
          /\ Len(gather.value) = Len(payloads)
          /\ \A i \in 1..Len(payloads) : gather.value[i].request = i
  /\ (op # "parse_responses" /\ (pc = "returned" \/ responses # <<>>))
       => /\ gather.state = "result"
          /\ responses = gather.value
          /\ outcome = parse_responses(responses)

C5_Witness ==
  /\ op = "notify"
  /\ pc = "returned"
  /\ Len(payloads) = 2
  /\ order = <<2, 1>>
  /\ responses[1].request = 1
  /\ responses[1] # [responses[2] EXCEPT !.request = 1]

SomeSendRaised == \E i \in 1..Len(tasks) : tasks[i].state = "raised"

\* C6: if the send of any payload raises, the operation raises: parse_responses is
\* not run on the other payloads' responses and no FCMResult is returned.
C6_NoPartialResult ==
  SomeSendRaised
    => /\ gather.state = "exception"
       /\ \E i \in 1..Len(tasks) : tasks[i].state = "raised" /\ gather.exc = tasks[i].exc
       /\ pc \in {"sending", "raised"}
       /\ responses = <<>>
       /\ pc = "sending" => outcome = Pending
       /\ pc = "raised" => outcome = [ok |-> FALSE, exc |-> gather.exc]

C6_Witness ==
  /\ pc = "raised"
  /\ Len(tasks) = 2
  /\ tasks[1].state = "done"
  /\ tasks[1].response.status_code = 200
  /\ tasks[2].state = "raised"
  /\ outcome.ok = FALSE
  /\ outcome.exc.error = "httpx.TransportError"

\* C7 as stated: one call of do_request makes at most one extra attempt for its
\* payload: at most two POSTs in total.
C7_Original == \A i \in 1..Len(tasks) : tasks[i].posts <= 2

NoExtension(a) == a.extra_kwargs = EmptyDict /\ ~Truthy(a.extra_notification_kwargs)

\* C8 as stated: in the payload parse_payload builds, a condition given puts the
\* condition field and no topic "to"; a condition or topic_name given together with
\* registration ids leaves no registration-id target in the payload.
C8_Original ==
  (op = "parse_payload" /\ outcome.ok /\ NoExtension(args))
    => LET p == Decoded(outcome.bytes)
           ids == IF Truthy(args.registration_ids) THEN args.registration_ids.v ELSE <<>>
       IN  /\ Truthy(args.condition)
                => /\ "condition" \in DOMAIN p
                   /\ p["condition"] = args.condition
                   /\ ~(/\ Truthy(args.topic_name)
                        /\ "to" \in DOMAIN p
                        /\ p["to"] = PyStr("/topics/" \o args.topic_name.v))
           /\ ((Truthy(args.condition) \/ Truthy(args.topic_name)) /\ Len(ids) >= 1)
                => /\ "registration_ids" \notin DOMAIN p
                   /\ ~("to" \in DOMAIN p /\ \E i \in 1..Len(ids) : p["to"] = ids[i])

\* the chunk of ids that payload k of a notify call is built from
ExpectedChunk(ids, k) ==
  SubSeq(ids, (k - 1) * FCM_MAX_RECIPIENTS + 1, Min(k * FCM_MAX_RECIPIENTS, Len(ids)))

\* C9: in every payload notify builds (no condition, no extension fields) a chunk of
\* one registration id is encoded as "to" with no "registration_ids", and a chunk of
\* two or more as "registration_ids" with no "to"; so per chunk.
C9_TargetShape ==
  (op = "notify" /\ pc = "sending" /\ ~Truthy(args.condition) /\ ~Truthy(args.extra_kwargs))
    => \A k \in 1..Len(payloads) :
         LET p == Decoded(payloads[k])
             chunk == ExpectedChunk(NotifyRegistrationIds(args), k)
         IN  IF Len(chunk) = 1
             THEN /\ "to" \in DOMAIN p
                  /\ p["to"] = chunk[1]
                  /\ "registration_ids" \notin DOMAIN p
             ELSE /\ Len(chunk) >= 2
                  /\ "registration_ids" \in DOMAIN p
                  /\ p["registration_ids"] = PyList(chunk)
                  /\ "to" \notin DOMAIN p

C9_Witness ==
  /\ op = "notify"
  /\ pc = "sending"
  /\ Len(payloads) = 2
  /\ "registration_ids" \in DOMAIN Decoded(payloads[1])
  /\ "to" \in DOMAIN Decoded(payloads[2])
  /\ Decoded(payloads[2])["to"] = args.registration_ids.v[FCM_MAX_RECIPIENTS + 1]

\* body (or title) and its localization pair in the notification sub-object n
TextExclusive(n, key, message, loc_key, loc_args) ==
  /\ Truthy(message)
       => /\ key \in DOMAIN n
          /\ n[key] = message
          /\ (key \o "_loc_key") \notin DOMAIN n
          /\ (key \o "_loc_args") \notin DOMAIN n
  /\ (~Truthy(message) /\ Truthy(loc_key))
       => /\ (key \o "_loc_key") \in DOMAIN n
          /\ n[key \o "_loc_key"] = loc_key
          /\ key \notin DOMAIN n
          /\ Truthy(loc_args)
               => (key \o "_loc_args") \in DOMAIN n /\ n[key \o "_loc_args"] = loc_args

\* C10: in the notification sub-object parse_payload builds (no extension fields),
\* message_body given puts body and neither body_loc_key nor body_loc_args;
\* message_body absent and body_loc_key given puts body_loc_key (and body_loc_args
\* when given) and no body; the same for the title.
C10_TextExclusive ==
  (op = "parse_payload" /\ outcome.ok /\ NoExtension(args)
     /\ ~Truthy(args.remove_notification))
    => LET p == Decoded(outcome.bytes)
       IN  /\ "notification" \in DOMAIN p
           /\ TextExclusive(p["notification"].v, "body", args.message_body,
                            args.body_loc_key, args.body_loc_args)
           /\ TextExclusive(p["notification"].v, "title", args.message_title,
                            args.title_loc_key, args.title_loc_args)

C10_Witness ==
  /\ op = "parse_payload"
  /\ outcome.ok
  /\ ~Truthy(args.message_body)
  /\ Truthy(args.body_loc_key)
  /\ Truthy(args.body_loc_args)
  /\ "body_loc_args" \in DOMAIN Decoded(outcome.bytes)["notification"].v
  /\ Truthy(args.message_title)
  /\ Truthy(args.title_loc_key)
  /\ Truthy(args.title_loc_args)
  /\ DOMAIN Decoded(outcome.bytes)["notification"].v = {"body_loc_key", "body_loc_args", "title"}

EmptySuccess(r) == r.status_code = 200 /\ r.body.kind = "empty"

\* C12 as stated: a 200 response with an empty body makes parse_responses fail with
\* FCMServerError, with or without a content-length header; it is never aggregated
\* and never fails with another error.
C12_Original ==
  op = "parse_responses" =>
    \A i \in 1..Len(responses) :
      (EmptySuccess(responses[i]) /\ \A j \in 1..(i - 1) : Healthy(responses[j]))
        => /\ outcome.ok = FALSE
           /\ outcome.exc.error = "FCMServerError"

CarriesMessageId(r) == Truthy(Get(r.body.value.v, "message_id", None))

\* C13: a 200 response whose body carries a message_id counts as exactly one
\* success, whatever success value the body carries (absent, 0, more than 1); its
\* failure, canonical_ids and results are accumulated as given.
C13_OneSuccess ==
  (op = "parse_responses" /\ AllHealthy
     /\ \A i \in 1..Len(responses) : CarriesMessageId(responses[i]))
    => /\ outcome.ok
       /\ outcome.result.success = Len(responses)
       /\ outcome.result.failure = SumField(responses, "failure")
       /\ outcome.result.canonical_ids = SumField(responses, "canonical_ids")
       /\ outcome.result.results = AllResults(responses)

C13_Witness ==
  /\ op = "parse_responses"
  /\ Len(responses) = 2
  /\ AllHealthy
  /\ CarriesMessageId(responses[1])
  /\ CarriesMessageId(responses[2])
  /\ BodyField(responses[1], "success") = 3
  /\ BodyField(responses[2], "success") = 0
  /\ BodyField(responses[2], "failure") = 1
  /\ outcome.ok
  /\ outcome.result.success = 2
  /\ outcome.result.failure = 1
  /\ outcome.result.canonical_ids = 1
  /\ Len(outcome.result.results) = 1

\* the message_id of the last response that carries one, None when none does
RECURSIVE LastMessageId(_)
LastMessageId(rs) ==
  IF rs = <<>> THEN None
  ELSE IF Get(rs[Len(rs)].body.value.v, "message_id", None) # None
       THEN rs[Len(rs)].body.value.v["message_id"]
       ELSE LastMessageId(SubSeq(rs, 1, Len(rs) - 1))

\* C14 as stated: across several 200 responses, topic_message_id of the result is
\* the message_id of the last response that carried one: non-null when any response
\* carried one, also when later responses carry none.
C14_Original ==
  (op = "parse_responses" /\ AllHealthy)
    => /\ outcome.ok
       /\ outcome.result.topic_message_id = LastMessageId(responses)

\* C15 as stated: parse_payload fails with InvalidDataError, whatever the other
\* arguments, when time_to_live is given and no integer, data_message is given and
\* no mapping, body_loc_args or title_loc_args is given and no sequence (also when
\* message_body or message_title is given), or badge is negative.
C15_Original ==
  (/\ op = "parse_payload"
   /\ \/ (args.time_to_live # None /\ ~IsInstanceInt(args.time_to_live))
      \/ (Truthy(args.data_message) /\ ~IsInstanceDict(args.data_message))
      \/ (Truthy(args.body_loc_args) /\ ~IsInstanceList(args.body_loc_args))
      \/ (Truthy(args.title_loc_args) /\ ~IsInstanceList(args.title_loc_args))
      \/ (IsInstanceInt(args.badge) /\ IntOf(args.badge) < 0))
    => /\ outcome.ok = FALSE
       /\ outcome.exc.error = "InvalidDataError"

HasTarget(p) == (DOMAIN p) \cap {"to", "registration_ids", "condition"} # {}

\* C16 as stated: every payload one of the three send operations hands to the
\* gateway has a to, registration_ids or condition field; a call that specifies no
\* target fails with InvalidDataError instead of sending.
C16_Original ==
  /\ tasks # <<>> => \A k \in 1..Len(payloads) : HasTarget(Decoded(payloads[k]))
  /\ (/\ op = "topic_subscribers_data_message"
      /\ ~Truthy(args.topic_name)
      /\ ~Truthy(args.condition))
       => /\ pc = "raised"
          /\ outcome.exc.error = "InvalidDataError"
          /\ NoRequestIssued

NotificationExtended(p, a) ==
  Truthy(a.extra_notification_kwargs)
    => /\ "notification" \in DOMAIN p
       /\ IsInstanceDict(p["notification"])
       /\ \A k \in DOMAIN a.extra_notification_kwargs.v :
            /\ k \in DOMAIN p["notification"].v
            /\ p["notification"].v[k] = a.extra_notification_kwargs.v[k]

\* C18 as stated: the extension fields are merged last: every key of
\* extra_notification_kwargs is in the final notification sub-object with the
\* caller's value, and every key of the top-level extension fields is at the top
\* level of the final payload with the caller's value.
C18_Original ==
  (op = "parse_payload" /\ outcome.ok)
    => LET p == Decoded(outcome.bytes)
       IN  /\ ~Truthy(args.remove_notification) => NotificationExtended(p, args)
           /\ \A k \in DOMAIN args.extra_kwargs :
                k \in DOMAIN p /\ p[k] = args.extra_kwargs[k]

\* C18: every key of extra_notification_kwargs is in the final notification
\* sub-object (when remove_notification leaves one) with the caller's value, and
\* every key of the top-level extension fields other than notification is at the
\* top level of the final payload with the caller's value, over whatever the
\* builder set there.
C18_ExtensionsLast ==
  (op = "parse_payload" /\ outcome.ok)
    => LET p == Decoded(outcome.bytes)
       IN  /\ ~Truthy(args.remove_notification) => NotificationExtended(p, args)
           /\ \A k \in (DOMAIN args.extra_kwargs) \ {"notification"} :
                k \in DOMAIN p /\ p[k] = args.extra_kwargs[k]

C18_Witness ==
  /\ op = "parse_payload"
  /\ outcome.ok
  /\ args.message_body = PyStr("hi")
  /\ args.extra_notification_kwargs = PyDict([body |-> PyStr("override")])
  /\ args.extra_kwargs = [priority |-> PyStr("normal"), data |-> PyStr("raw")]
  /\ ~Truthy(args.low_priority)
  /\ Decoded(outcome.bytes)["priority"] = PyStr("normal")
  /\ Decoded(outcome.bytes)["notification"].v["body"] = PyStr("override")

\* the error a response that is no success is classified as
ExpectedFailure(r) ==
  IF r.status_code # 200 THEN ExpectedError(r.status_code)
  ELSE IF "content-length" \in DOMAIN r.headers /\ r.headers["content-length"] = <<"0">>
  THEN "FCMServerError"
  ELSE IF r.body.kind # "json" THEN "JSONDecodeError"
  ELSE "AttributeError"

\* the lowest index of a response that is no success
FirstFailing(rs) ==
  CHOOSE i \in 1..Len(rs) : ~Healthy(rs[i]) /\ \A j \in 1..(i - 1) : Healthy(rs[j])

\* C19: when several chunk responses are no successes, the error raised is the one
\* classified from the lowest-index failing response in submission order; what was
\* accumulated before it is discarded, the responses after it are not examined,
\* and the order in which the concurrent sends completed does not matter.
C19_FirstFailure ==
  (op \in {"notify", "notify_topic_subscribers", "topic_subscribers_data_message"}
     /\ gather.state = "result" /\ pc \in {"returned", "raised"})
    => /\ responses = gather.value
       /\ \A i \in 1..Len(responses) : responses[i].request = i
       /\ IF \E i \in 1..Len(responses) : ~Healthy(responses[i])
          THEN LET r == responses[FirstFailing(responses)]
               IN  /\ pc = "raised"
                   /\ DOMAIN outcome = {"ok", "exc"}
                   /\ outcome.ok = FALSE
                   /\ outcome.exc.error = ExpectedFailure(r)
                   /\ r.status_code = 400 => outcome.exc.msg = [t |-> "text", of |-> r.body]
          ELSE pc = "returned" /\ outcome.ok

C19_Witness ==
  /\ op = "notify"
  /\ pc = "raised"
  /\ gather.state = "result"
  /\ order = <<2, 1>>
  /\ Len(responses) = 2
  /\ responses[1].status_code = 400
  /\ responses[2].status_code = 401
  /\ outcome.exc.error = "InvalidDataError"

\* no task has returned a response that asks for a retry
NoRetryReturned ==
  \A i \in 1..Len(tasks) :
    /\ tasks[i].state = "done" => RetryDecision(tasks[i].response) = "return"
    /\ tasks[i].response # None => tasks[i].state = "done"

\* a task that got a positive Retry-After sleeps, and from its sleep it only goes on
\* to another POST, of the same payload
RetryPosts ==
  \A i \in 1..Len(tasks) :
    tasks[i].state = "sleeping"
      => /\ Len(tasks') = Len(tasks)
         /\ tasks'[i].state \in {"sleeping", "posted"}
         /\ tasks'[i].state = "posted" => tasks'[i].posts = tasks[i].posts + 1
         /\ payloads' = payloads

\* C20: do_request never returns a response that carries a positive Retry-After:
\* such a response is followed by a sleep and another POST of the same payload; when
\* the gateway asks for a retry only finitely many times, do_request comes to an end,
\* with the first response that asks for none (or with an exception).
C20_RetryUntilDone ==
  /\ []NoRetryReturned
  /\ [][RetryPosts]_vars
  /\ \A i \in TaskIds :
       (Len(tasks) >= i) ~> (Len(tasks) >= i /\ tasks[i].state \in {"done", "raised"})

C20_Witness ==
  /\ Len(tasks) = 2
  /\ tasks[1].state = "done"
  /\ tasks[1].posts = MaxAttempts
  /\ tasks[2].state = "sleeping"
  /\ tasks[2].posts = 1

\* C21: notify called with both a non-empty registration_id and a non-empty
\* registration_ids list discards the list: exactly one payload is built (when
\* parse_payload accepts the other arguments), it targets registration_id through
\* the single-target field "to", and no other id of registration_ids is in it.
C21_IdReplacesList ==
  (op = "notify" /\ Truthy(args.registration_id) /\ Truthy(args.registration_ids))
    => IF args.time_to_live # None /\ ~IsInstanceInt(args.time_to_live)
       THEN pc = "raised" /\ payloads = <<>> /\ tasks = <<>>
       ELSE /\ pc \in {"sending", "returned", "raised"}
            /\ Len(payloads) = 1
            /\ Len(tasks) = 1
            /\ LET p == Decoded(payloads[1])
                   ids == args.registration_ids.v
               IN  /\ "to" \in DOMAIN p
                   /\ p["to"] = args.registration_id
                   /\ "registration_ids" \notin DOMAIN p
                   /\ \A i \in 1..Len(ids) :
                        ids[i] # args.registration_id
                          => \A k \in DOMAIN p : p[k] # ids[i]

C21_Witness ==
  /\ op = "notify"
  /\ pc = "returned"
  /\ args.registration_id = PyStr("r0")
  /\ args.registration_ids = PyList(IdList(2))
  /\ Len(payloads) = 1
  /\ Decoded(payloads[1])["to"] = PyStr("r0")
  /\ tasks[1].posts >= 1
====
